---- MODULE Spec2Model ----
(***************************************************************************)
(* EdgeGuard: the hardware-drift monitor of Datasance/EdgeGuard.           *)
(*                                                                         *)
(* Two builds of the same loop are modelled, selected by `variant`:        *)
(*   "file"  src/unnamed/part_001   salt and baseline kept in id/salt-key  *)
(*                                  and id/hw-id                           *)
(*   "wasm"  src/wasm-binary/main.go  salt in a global, baseline in a      *)
(*                                  local of main                          *)
(*                                                                         *)
(* Strings and byte slices are sequences of string tokens; "" is <<>>.     *)
(* One iteration of main's for-loop (a tick) is one atomic step; the       *)
(* process is single-threaded.  The facts service, the token file and the  *)
(* kill/restart of the process are the environment.                        *)
(***************************************************************************)
EXTENDS Integers, Sequences, FiniteSets, TLC

VARIABLES
    variant,      \* which build runs: "file" or "wasm"
    pc,           \* "loop": in main's for-loop; "done": main returned
    initialHdID,  \* main's local initialHdID ("" = <<>>)
    salt,         \* wasm build: the global `salt`; unused by the file build
    saltFile,     \* id/salt-key   [exists, data]
    hwidFile,     \* id/hw-id      [exists, data]
    tokenFile,    \* local-api     [exists, data]
    hw,           \* what the five HAL endpoints currently answer
    last,         \* history: what the most recent tick of this run did
    ret           \* history of the function-level specifications: what the
                  \* calls made so far returned; NoRet while main runs

vars == <<variant, pc, initialHdID, salt, saltFile, hwidFile, tokenFile, hw, last, ret>>

----------------------------------------------------------------------------
(* Bounds *)

NumSalts == 2     \* distinct values generateSalt can return
NumTokens == 2    \* distinct auth tokens the token file can hold
MaxCalls == 3     \* calls of calculateSaltedHash in the function-level runs

SaltNames == <<"s1", "s2", "s3", "s4">>
TokenNames == <<"t1", "t2", "t3", "t4">>

----------------------------------------------------------------------------
(* Files *)

\* No call has been made (and none is made while main runs).
NoRet == [calls |-> 0]

NoFile == [exists |-> FALSE, data |-> <<>>]
FileOf(d) == [exists |-> TRUE, data |-> d]

IsSpace(c) == c \in {" ", "\n", "\t", "\r"}

RECURSIVE TrimLeft(_)
TrimLeft(s) ==
    IF s = <<>> THEN <<>>
    ELSE IF IsSpace(Head(s)) THEN TrimLeft(Tail(s)) ELSE s

RECURSIVE TrimRight(_)
TrimRight(s) ==
    IF s = <<>> THEN <<>>
    ELSE IF IsSpace(s[Len(s)]) THEN TrimRight(SubSeq(s, 1, Len(s) - 1)) ELSE s

\* bytes.TrimSpace
TrimSpace(s) == TrimRight(TrimLeft(s))

\* What a read of an existing file can do; a missing file always fails.
ReadOutcomes == {"ok", "ioerr"}

\* What a write can do; a failed write leaves the file as it was.
WriteOutcomes == {"ok", "fail"}

\* loadFromFile(filename): (string, error)
loadFromFile(f, rd) ==
    IF ~f.exists \/ rd = "ioerr"
    THEN [err |-> TRUE, data |-> <<>>]
    ELSE [err |-> FALSE, data |-> TrimSpace(f.data)]

\* saveToFile(filename, data): error, and the file afterwards
saveToFile(f, d, wr) ==
    IF wr = "ok"
    THEN [err |-> FALSE, file |-> FileOf(d)]
    ELSE [err |-> TRUE, file |-> f]

----------------------------------------------------------------------------
(* Hardware Collector *)

\* JSON documents, as the token sequence of their canonical serialization.
ObjX86 == <<"{", "cpu", ":", "x86", "}">>
ObjArm == <<"{", "cpu", ":", "arm", "}">>
ArrX86 == <<"[", "x86", "]">>
ObjErr == <<"{", "error", ":", "unavailable", "}">>
NotJson == <<"<html>">>
JsonNull == <<"null">>
StrX86 == <<"\"x86\"">>
NumFour == <<"4">>
JsonTrue == <<"true">>

\* The bodies json.Unmarshal accepts: one of each JSON type.
JsonDocs == {ObjX86, ObjArm, ArrX86, ObjErr, StrX86, NumFour, JsonTrue, JsonNull}

\* An HTTP exchange with the facts service: fail is "get" (http.Get returned
\* an error), "read" (the body could not be read) or "none".
RespOK(body) == [fail |-> "none", status |-> 200, body |-> body]
RespStatus(st, body) == [fail |-> "none", status |-> st, body |-> body]
RespGetErr == [fail |-> "get", status |-> 0, body |-> <<>>]
RespReadErr == [fail |-> "read", status |-> 200, body |-> <<>>]

Endpoints == <<"lscpu", "lspci", "lsusb", "lshw", "proc/cpuinfo">>
EndpointSet == {Endpoints[i] : i \in 1..Len(Endpoints)}

\* The HardwareData field (by its json tag) each endpoint is stored in.
FieldOf(endpoint) == IF endpoint = "proc/cpuinfo" THEN "cpuinfo" ELSE endpoint
Fields == <<"lscpu", "lspci", "lsusb", "lshw", "cpuinfo">>

\* &HardwareData{}: five nil maps
EmptyHardwareData == [f \in {Fields[i] : i \in 1..Len(Fields)} |-> JsonNull]

\* fetchEndpoint(url): (interface{}, error).  The status code is never read.
fetchEndpoint(resp) ==
    IF resp.fail = "get" THEN [err |-> TRUE, data |-> <<>>]
    ELSE IF resp.fail = "read" THEN [err |-> TRUE, data |-> <<>>]
    ELSE IF resp.body \notin JsonDocs THEN [err |-> TRUE, data |-> <<>>]
    ELSE [err |-> FALSE, data |-> resp.body]

IsJsonObject(v) == v # <<>> /\ Head(v) = "{"

\* Mutant: every value is wrapped, objects too.
parseToMap_AlwaysWrap(data) == <<"{", "data", ":">> \o data \o <<"}">>

\* parseToMap(data): map[string]interface{}
parseToMap(data) ==
    IF IsJsonObject(data) THEN data
    ELSE <<"{", "data", ":">> \o data \o <<"}">>

\* Mutant: a failed fetch is skipped (`continue` for `return nil, err`), so the
\* remaining endpoints are fetched and a snapshot with the category missing is
\* returned.
RECURSIVE collectFrom_SkipFailed(_, _, _)
collectFrom_SkipFailed(h, i, data) ==
    IF i > Len(Endpoints)
    THEN [err |-> FALSE, data |-> data, fetched |-> i - 1]
    ELSE LET result == fetchEndpoint(h[Endpoints[i]])
         IN  IF result.err
             THEN collectFrom_SkipFailed(h, i + 1, data)
             ELSE collectFrom_SkipFailed(h, i + 1,
                     [data EXCEPT ![FieldOf(Endpoints[i])] = parseToMap(result.data)])

\* The for-loop of collectHardwareData from endpoint i on; fetched counts the
\* requests made.
RECURSIVE collectFrom(_, _, _)
collectFrom(h, i, data) ==
    IF i > Len(Endpoints)
    THEN [err |-> FALSE, data |-> data, fetched |-> i - 1]
    ELSE LET result == fetchEndpoint(h[Endpoints[i]])
         IN  IF result.err
             THEN [err |-> TRUE, data |-> EmptyHardwareData, fetched |-> i]
             ELSE collectFrom(h, i + 1,
                     [data EXCEPT ![FieldOf(Endpoints[i])] = parseToMap(result.data)])

\* collectHardwareData(baseURL): (*HardwareData, error)
collectHardwareData(h) == collectFrom(h, 1, EmptyHardwareData)

\* The facts service's answers the monitor is run against.
HwBase == [e \in EndpointSet |-> RespOK(ObjX86)]
HwCpuSwapped == [HwBase EXCEPT !["lscpu"] = RespOK(ObjArm)]
HwUsbDown == [HwBase EXCEPT !["lsusb"] = RespGetErr]

HwStates == {HwBase, HwCpuSwapped, HwUsbDown}

\* collectHardwareData for each of these answers, computed once.
Collected == [h \in HwStates |-> collectHardwareData(h)]

----------------------------------------------------------------------------
(* Fingerprint Engine *)

\* json.Marshal(data): the struct's fields in declaration order.
RECURSIVE MarshalFields(_, _)
MarshalFields(data, i) ==
    IF i > Len(Fields) THEN <<>>
    ELSE (IF i > 1 THEN <<",">> ELSE <<>>)
         \o <<Fields[i], ":">> \o data[Fields[i]] \o MarshalFields(data, i + 1)

Marshal(data) == <<"{">> \o MarshalFields(data, 1) \o <<"}">>

\* fmt.Sprintf("%x", sha256.Sum256(b)): SHA-256 is taken to be collision-free,
\* so the digest is a tagged copy of its preimage; it is never empty.
Sha256Hex(b) == <<"sha256">> \o b

\* The values generateSalt can return (base64 of 16 random bytes).
Salts == {<<SaltNames[i]>> : i \in 1..NumSalts}

\* generateSalt(): (string, error); rand.Read may fail.
GenOutcomes == {[err |-> FALSE, salt |-> s] : s \in Salts}
                 \cup {[err |-> TRUE, salt |-> <<>>]}

\* Mutant: the generating call hashes the random bytes, and stores their
\* base64 text.
calculateSaltedHashFile_RawSalt(data, sf, rd, gen, wr) ==
    LET jsonData == Marshal(data)
        loaded == loadFromFile(sf, rd)
        saved == saveToFile(sf, gen.salt, wr)
    IN  IF ~loaded.err
        THEN [err |-> FALSE, id |-> Sha256Hex(loaded.data \o jsonData),
              saltFile |-> sf, salt |-> <<>>, generated |-> FALSE]
        ELSE IF gen.err
        THEN [err |-> TRUE, id |-> <<>>,
              saltFile |-> sf, salt |-> <<>>, generated |-> FALSE]
        ELSE IF saved.err
        THEN [err |-> TRUE, id |-> <<>>,
              saltFile |-> saved.file, salt |-> <<>>, generated |-> TRUE]
        ELSE [err |-> FALSE, id |-> Sha256Hex(<<"raw">> \o gen.salt \o jsonData),
              saltFile |-> saved.file, salt |-> <<>>, generated |-> TRUE]

\* calculateSaltedHash of the file build: the digest, and the salt file after.
\*   rd  outcome of reading id/salt-key     gen  outcome of generateSalt
\*   wr  outcome of writing id/salt-key
calculateSaltedHashFile(data, sf, rd, gen, wr) ==
    LET jsonData == Marshal(data)
        loaded == loadFromFile(sf, rd)
        saved == saveToFile(sf, gen.salt, wr)
    IN  IF ~loaded.err
        THEN [err |-> FALSE, id |-> Sha256Hex(loaded.data \o jsonData),
              saltFile |-> sf, salt |-> <<>>, generated |-> FALSE]
        ELSE IF gen.err
        THEN [err |-> TRUE, id |-> <<>>,
              saltFile |-> sf, salt |-> <<>>, generated |-> FALSE]
        ELSE IF saved.err
        THEN [err |-> TRUE, id |-> <<>>,
              saltFile |-> saved.file, salt |-> <<>>, generated |-> TRUE]
        ELSE [err |-> FALSE, id |-> Sha256Hex(gen.salt \o jsonData),
              saltFile |-> saved.file, salt |-> <<>>, generated |-> TRUE]

\* Mutant: the test `if salt == ""` is missing, every call generates a salt.
calculateSaltedHashMem_Regenerate(data, sl, gen) ==
    LET jsonData == Marshal(data)
    IN  IF gen.err
        THEN [err |-> TRUE, id |-> <<>>,
              saltFile |-> NoFile, salt |-> gen.salt, generated |-> FALSE]
        ELSE [err |-> FALSE, id |-> Sha256Hex(gen.salt \o jsonData),
              saltFile |-> NoFile, salt |-> gen.salt, generated |-> TRUE]

\* calculateSaltedHash of the wasm build: the digest, and the global salt after.
calculateSaltedHashMem(data, sl, gen) ==
    LET jsonData == Marshal(data)
    IN  IF sl # <<>>
        THEN [err |-> FALSE, id |-> Sha256Hex(sl \o jsonData),
              saltFile |-> NoFile, salt |-> sl, generated |-> FALSE]
        ELSE IF gen.err
        THEN [err |-> TRUE, id |-> <<>>,
              saltFile |-> NoFile, salt |-> gen.salt, generated |-> FALSE]
        ELSE [err |-> FALSE, id |-> Sha256Hex(gen.salt \o jsonData),
              saltFile |-> NoFile, salt |-> gen.salt, generated |-> TRUE]

----------------------------------------------------------------------------
(* Deprovision Client *)

StatusOK == 200

\* The token file's possible contents: a token followed by a newline.
Tokens == {<<TokenNames[i]>> : i \in 1..NumTokens}
TokenFiles == {NoFile} \cup {FileOf(t \o <<"\n">>) : t \in Tokens}

\* loadAuthToken(): (string, error)
loadAuthToken(tf, rd) ==
    IF ~tf.exists \/ rd = "ioerr"
    THEN [err |-> TRUE, token |-> <<>>]
    ELSE [err |-> FALSE, token |-> TrimSpace(tf.data)]

\* What the revocation endpoint can answer to the DELETE: fail is "do"
\* (client.Do returned an error) or "none".
DeleteResponses ==
    {[fail |-> "do", status |-> 0]}
        \cup {[fail |-> "none", status |-> st] : st \in {200, 204, 500}}

\* Mutant: any 2xx status counts as success.
deprovisionDevice_Any2xx(authToken, resp) ==
    IF resp.fail = "do"
    THEN [err |-> TRUE, sent |-> 1, auth |-> authToken, status |-> 0]
    ELSE IF resp.status < 200 \/ resp.status >= 300
    THEN [err |-> TRUE, sent |-> 1, auth |-> authToken, status |-> resp.status]
    ELSE [err |-> FALSE, sent |-> 1, auth |-> authToken, status |-> resp.status]

\* Mutant: a failed request is sent a second time before the error is returned.
deprovisionDevice_RetryOnce(authToken, resp) ==
    IF resp.fail = "do"
    THEN [err |-> TRUE, sent |-> 2, auth |-> authToken, status |-> 0]
    ELSE IF resp.status # StatusOK
    THEN [err |-> TRUE, sent |-> 2, auth |-> authToken, status |-> resp.status]
    ELSE [err |-> FALSE, sent |-> 1, auth |-> authToken, status |-> resp.status]

\* deprovisionDevice(authToken): error.  One request, no retry; sent is the
\* number of DELETE requests made and auth the Authorization header on it.
deprovisionDevice(authToken, resp) ==
    IF resp.fail = "do"
    THEN [err |-> TRUE, sent |-> 1, auth |-> authToken, status |-> 0]
    ELSE IF resp.status # StatusOK
    THEN [err |-> TRUE, sent |-> 1, auth |-> authToken, status |-> resp.status]
    ELSE [err |-> FALSE, sent |-> 1, auth |-> authToken, status |-> resp.status]

----------------------------------------------------------------------------------------------------------------------------------------
(* Drift Monitor: main *)

Variants == {"file", "wasm"}

\* No tick has run yet in this process.
NoTick == [outcome |-> "none", prevFailed |-> FALSE,
           hadBaseline |-> FALSE, differs |-> FALSE, hwID |-> <<>>,
           fetched |-> 0, tokenReads |-> 0, deletes |-> 0,
           status |-> 0, auth |-> <<>>, slept |-> FALSE]

\* The record of one tick: how it ended, whether the tick before it ended in a
\* failed deprovision step, whether a baseline was set when it began, whether
\* the hash it computed differs from initialHdID as it was when the tick began,
\* and what it did.
TickRecord(outcome, hwID, fetched, tokenReads, deletes, status, auth, slept) ==
    [outcome |-> outcome,
     prevFailed |-> last.outcome \in {"tokenErr", "deprovErr"},
     hadBaseline |-> initialHdID # <<>>,
     differs |-> hwID # <<>> /\ hwID # initialHdID, hwID |-> hwID,
     fetched |-> fetched, tokenReads |-> tokenReads,
     deletes |-> deletes, status |-> status, auth |-> auth, slept |-> slept]

\* main, before the loop: the baseline the process starts with.
\* The wasm build declares `var initialHdID string`.
StartupID(hf, rd) ==
    IF variant = "file" THEN loadFromFile(hf, rd).data ELSE <<>>

\* The states id/salt-key and the global salt can be in.
SaltFiles == {NoFile} \cup {FileOf(s) : s \in Salts}
MemSalts == {<<>>} \cup Salts

\* What calculateSaltedHash can return, by build, for each answer of the facts
\* service and each state of the salt; computed once.
FileHashOutcomes ==
    [h \in HwStates, sf \in SaltFiles |->
        {calculateSaltedHashFile(Collected[h].data, sf, rd, gen, wr) :
            rd \in ReadOutcomes, gen \in GenOutcomes, wr \in WriteOutcomes}]
MemHashOutcomes ==
    [h \in HwStates, sl \in MemSalts |->
        {calculateSaltedHashMem(Collected[h].data, sl, gen) : gen \in GenOutcomes}]

\* What calculateSaltedHash of the running build can return in this tick.
HashOutcomes ==
    IF variant = "file" THEN FileHashOutcomes[hw, saltFile]
    ELSE MemHashOutcomes[hw, salt]

\* What loadAuthToken can return, for each state of the token file; computed
\* once.
TokenTable == [tf \in TokenFiles |-> {loadAuthToken(tf, rd) : rd \in ReadOutcomes}]

\* Mutant: the token of the previous attempt is kept and used again.
TokenOutcomes_Cached ==
    IF last.auth # <<>> THEN {[err |-> FALSE, token |-> last.auth]}
    ELSE TokenTable[tokenFile]

TokenOutcomes == TokenTable[tokenFile]

\* What deprovisionDevice can return.
DeprovisionOutcomes(authToken) ==
    {deprovisionDevice(authToken, resp) : resp \in DeleteResponses}

\* Mutant: the first-run check is left out.
BaselineUnset_Never(id) == FALSE

\* `if initialHdID == ""`
BaselineUnset(id) == id = <<>>

\* Mutant: the comparison is inverted.
Drifted_Inverted(hwID, id) == hwID = id

\* `if hwID != initialHdID`
Drifted(hwID, id) == hwID # id

\* The salt after calculateSaltedHash returned h.
SaltAfter(h) ==
    /\ saltFile' = (IF variant = "file" THEN h.saltFile ELSE saltFile)
    /\ salt' = (IF variant = "wasm" THEN h.salt ELSE salt)

Init ==
    /\ variant \in Variants
    /\ pc = "loop"
    /\ initialHdID = <<>>
    /\ salt = <<>>
    /\ saltFile = NoFile
    /\ hwidFile = NoFile
    /\ tokenFile \in TokenFiles
    /\ hw \in HwStates
    /\ last = NoTick
    /\ ret = NoRet

\* collectHardwareData fails: log, continue.
TickCollectError ==
    /\ pc = "loop"
    /\ LET c == Collected[hw]
       IN  /\ c.err
           /\ last' = TickRecord("collectErr", <<>>, c.fetched, 0, 0, 0, <<>>, FALSE)
    /\ UNCHANGED <<ret, variant, pc, initialHdID, salt, saltFile, hwidFile, tokenFile, hw>>

\* Mutant: the `continue` after a failed hash is missing, so the empty hwID
\* falls through to the first-run branch or to the comparison.
TickHashError_FallThrough ==
    /\ pc = "loop"
    /\ LET c == Collected[hw]
       IN  /\ ~c.err
           /\ \E h \in HashOutcomes :
                /\ h.err
                /\ SaltAfter(h)
                /\ hwidFile' = (IF variant = "file" /\ initialHdID = <<>>
                                THEN FileOf(<<>>) ELSE hwidFile)
                /\ last' = TickRecord("hashErr", <<>>, c.fetched,
                                      (IF initialHdID = <<>> THEN 0 ELSE 1),
                                      0, 0, <<>>, FALSE)
    /\ UNCHANGED <<ret, variant, pc, initialHdID, tokenFile, hw>>

\* calculateSaltedHash fails: log, continue.
TickHashError ==
    /\ pc = "loop"
    /\ LET c == Collected[hw]
       IN  /\ ~c.err
           /\ \E h \in HashOutcomes :
                /\ h.err
                /\ SaltAfter(h)
                /\ last' = TickRecord("hashErr", <<>>, c.fetched,
                                      0, 0, 0, <<>>, FALSE)
    /\ UNCHANGED <<ret, variant, pc, initialHdID, hwidFile, tokenFile, hw>>

\* No baseline yet: take this hash as the baseline (the file build also writes
\* it to id/hw-id and only logs a failed write), continue.
TickBaseline ==
    /\ pc = "loop"
    /\ LET c == Collected[hw]
       IN  /\ ~c.err
           /\ \E h \in HashOutcomes, wrID \in WriteOutcomes :
                /\ ~h.err
                /\ BaselineUnset(initialHdID)
                /\ SaltAfter(h)
                /\ initialHdID' = h.id
                /\ hwidFile' = (IF variant = "file"
                                THEN saveToFile(hwidFile, h.id, wrID).file
                                ELSE hwidFile)
                /\ last' = TickRecord("baselineSet", h.id, c.fetched,
                                      0, 0, 0, <<>>, FALSE)
    /\ UNCHANGED <<ret, variant, pc, tokenFile, hw>>

\* The hash equals the baseline: log, sleep for the period.
TickUnchanged ==
    /\ pc = "loop"
    /\ LET c == Collected[hw]
       IN  /\ ~c.err
           /\ \E h \in HashOutcomes :
                /\ ~h.err
                /\ ~BaselineUnset(initialHdID)
                /\ ~Drifted(h.id, initialHdID)
                /\ SaltAfter(h)
                /\ last' = TickRecord("unchanged", h.id, c.fetched,
                                      0, 0, 0, <<>>, TRUE)
    /\ UNCHANGED <<ret, variant, pc, initialHdID, hwidFile, tokenFile, hw>>

\* Mutant: an unreadable token ends the process (log.Fatalf for log.Printf).
TickTokenError_GivesUp ==
    /\ pc = "loop"
    /\ LET c == Collected[hw]
       IN  /\ ~c.err
           /\ \E h \in HashOutcomes, t \in TokenOutcomes :
                /\ ~h.err
                /\ ~BaselineUnset(initialHdID)
                /\ Drifted(h.id, initialHdID)
                /\ t.err
                /\ SaltAfter(h)
                /\ pc' = "done"
                /\ last' = TickRecord("tokenErr", h.id, c.fetched,
                                      1, 0, 0, <<>>, FALSE)
    /\ UNCHANGED <<ret, variant, initialHdID, hwidFile, tokenFile, hw>>

\* The hash differs and the token cannot be read: log, continue.
TickTokenError ==
    /\ pc = "loop"
    /\ LET c == Collected[hw]
       IN  /\ ~c.err
           /\ \E h \in HashOutcomes, t \in TokenOutcomes :
                /\ ~h.err
                /\ ~BaselineUnset(initialHdID)
                /\ Drifted(h.id, initialHdID)
                /\ t.err
                /\ SaltAfter(h)
                /\ last' = TickRecord("tokenErr", h.id, c.fetched,
                                      1, 0, 0, <<>>, FALSE)
    /\ UNCHANGED <<ret, variant, pc, initialHdID, hwidFile, tokenFile, hw>>

\* The hash differs and the DELETE fails: log, continue.
TickDeprovisionError ==
    /\ pc = "loop"
    /\ LET c == Collected[hw]
       IN  /\ ~c.err
           /\ \E h \in HashOutcomes, t \in TokenOutcomes :
                /\ ~h.err
                /\ ~BaselineUnset(initialHdID)
                /\ Drifted(h.id, initialHdID)
                /\ ~t.err
                /\ \E d \in DeprovisionOutcomes(t.token) :
                     /\ d.err
                     /\ SaltAfter(h)
                     /\ last' = TickRecord("deprovErr", h.id, c.fetched,
                                           1, d.sent, d.status, d.auth, FALSE)
    /\ UNCHANGED <<ret, variant, pc, initialHdID, hwidFile, tokenFile, hw>>

\* The hash differs and the DELETE is answered 200: log, break; main returns.
TickDeprovisioned ==
    /\ pc = "loop"
    /\ LET c == Collected[hw]
       IN  /\ ~c.err
           /\ \E h \in HashOutcomes, t \in TokenOutcomes :
                /\ ~h.err
                /\ ~BaselineUnset(initialHdID)
                /\ Drifted(h.id, initialHdID)
                /\ ~t.err
                /\ \E d \in DeprovisionOutcomes(t.token) :
                     /\ ~d.err
                     /\ SaltAfter(h)
                     /\ pc' = "done"
                     /\ last' = TickRecord("deprovisioned", h.id, c.fetched,
                                           1, d.sent, d.status, d.auth, FALSE)
    /\ UNCHANGED <<ret, variant, initialHdID, hwidFile, tokenFile, hw>>

\* The process is killed (or has returned) and is started again: globals and
\* locals are lost, the files stay, and main reads id/hw-id before the loop.
Restart ==
    /\ \E rd \in ReadOutcomes :
         initialHdID' = StartupID(hwidFile, rd)
    /\ pc' = "loop"
    /\ salt' = <<>>
    /\ last' = NoTick
    /\ UNCHANGED <<ret, variant, saltFile, hwidFile, tokenFile, hw>>

\* The hardware, or the facts service's health, changes.
HwChange ==
    /\ hw' \in HwStates \ {hw}
    /\ UNCHANGED <<ret, variant, pc, initialHdID, salt, saltFile, hwidFile, tokenFile, last>>

\* The token file is rotated, removed or created.
TokenChange ==
    /\ tokenFile' \in TokenFiles \ {tokenFile}
    /\ UNCHANGED <<ret, variant, pc, initialHdID, salt, saltFile, hwidFile, hw, last>>

Next ==
    \/ TickCollectError
    \/ TickHashError
    \/ TickBaseline
    \/ TickUnchanged
    \/ TickTokenError
    \/ TickDeprovisionError
    \/ TickDeprovisioned
    \/ Restart
    \/ HwChange
    \/ TokenChange

Spec == Init /\ [][Next]_vars

\* One iteration of main's for-loop.
Tick ==
    \/ TickCollectError
    \/ TickHashError
    \/ TickBaseline
    \/ TickUnchanged
    \/ TickTokenError
    \/ TickDeprovisionError
    \/ TickDeprovisioned

\* A tick in which nothing fails.
GoodTick == TickBaseline \/ TickUnchanged \/ TickDeprovisioned

\* One run of the process: no restart.
RunNext ==
    \/ Tick
    \/ HwChange
    \/ TokenChange

\* One run of the process in which the loop never stops by itself (WF on
\* Tick), and in which a tick where every request and every file access
\* succeeds, if possible again and again, happens (SF on GoodTick).
FairSpec == Init /\ [][RunNext]_vars /\ WF_vars(Tick) /\ SF_vars(GoodTick)

----------------------------------------------------------------------------
(* collectHardwareData on its own: one call, for each build, against every   *)
(* combination of answers in which at most two endpoints depart from HwBase. *)

\* What one endpoint of the facts service can answer.
FactsResponses ==
    {RespOK(d) : d \in {ObjX86, ArrX86, StrX86, NumFour, JsonTrue, JsonNull}}
        \cup {RespOK(NotJson), RespGetErr, RespReadErr,
              RespStatus(500, ObjErr), RespStatus(404, NotJson)}

HwAnswers ==
    {[[HwBase EXCEPT ![e1] = r1] EXCEPT ![e2] = r2] :
        e1 \in EndpointSet, e2 \in EndpointSet,
        r1 \in FactsResponses, r2 \in FactsResponses}

CollectInit ==
    /\ variant \in Variants
    /\ pc = "call"
    /\ initialHdID = <<>>
    /\ salt = <<>>
    /\ saltFile = NoFile
    /\ hwidFile = NoFile
    /\ tokenFile = NoFile
    /\ hw \in HwAnswers
    /\ last = NoTick
    /\ ret = NoRet

\* hardwareData, err := collectHardwareData(halURL)
CollectCall ==
    /\ pc = "call"
    /\ LET c == collectHardwareData(hw)
       IN  ret' = [calls |-> 1, err |-> c.err, data |-> c.data, fetched |-> c.fetched]
    /\ pc' = "returned"
    /\ UNCHANGED <<variant, initialHdID, salt, saltFile, hwidFile, tokenFile, hw, last>>

CollectSpec == CollectInit /\ [][CollectCall]_vars

----------------------------------------------------------------------------
(* calculateSaltedHash on its own: up to MaxCalls calls on one snapshot,     *)
(* starting without a salt, with process restarts in between.                *)

\* Answers of the facts service that give a snapshot.
HashInputs ==
    {[HwBase EXCEPT ![e] = RespOK(d)] :
        e \in EndpointSet, d \in {ObjX86, ObjArm, ArrX86, JsonNull}}

HashInit ==
    /\ variant \in Variants
    /\ pc = "call"
    /\ initialHdID = <<>>
    /\ salt = <<>>
    /\ saltFile = NoFile
    /\ hwidFile = NoFile
    /\ tokenFile = NoFile
    /\ hw \in HashInputs
    /\ last = NoTick
    /\ ret = NoRet

\* hwID, err := calculateSaltedHash(hardwareData), on the snapshot of hw.
\* ret records the call: its results, whether it generated a salt, and in
\* genID the digest returned by the latest call that generated a salt and
\* kept it.
HashCall ==
    /\ ret.calls < MaxCalls
    /\ LET data == collectHardwareData(hw).data
       IN  \E rd \in ReadOutcomes, gen \in GenOutcomes, wr \in WriteOutcomes :
             LET h == IF variant = "file"
                      THEN calculateSaltedHashFile(data, saltFile, rd, gen, wr)
                      ELSE calculateSaltedHashMem(data, salt, gen)
             IN  /\ SaltAfter(h)
                 /\ ret' = [calls |-> ret.calls + 1, err |-> h.err, id |-> h.id,
                            generated |-> h.generated,
                            genID |-> IF h.generated /\ ~h.err THEN h.id
                                      ELSE IF ret.calls = 0 THEN <<>>
                                      ELSE ret.genID]
    /\ UNCHANGED <<variant, pc, initialHdID, hwidFile, tokenFile, hw, last>>

\* The process restarts between two calls: the global salt is lost, the salt
\* file stays.
HashRestart ==
    /\ ret.calls > 0
    /\ salt # <<>>
    /\ salt' = <<>>
    /\ UNCHANGED <<variant, pc, initialHdID, saltFile, hwidFile, tokenFile, hw, last, ret>>

HashNext ==
    \/ HashCall
    \/ HashRestart

HashSpec == HashInit /\ [][HashNext]_vars

----------------------------------------------------------------------------
(* Properties *)

\* Collection and fingerprinting both succeeded in the most recent tick.
Succeeded ==
    last.outcome \in {"baselineSet", "unchanged", "tokenErr", "deprovErr", "deprovisioned"}

\* The most recent tick had a baseline and computed a different fingerprint.
DriftTick == Succeeded /\ last.hadBaseline /\ last.differs

\* The serialized snapshot a fingerprint was computed from.
RECURSIVE JsonOf(_)
JsonOf(id) ==
    IF id = <<>> THEN <<>>
    ELSE IF Head(id) = "{" THEN id ELSE JsonOf(Tail(id))

\* C1: starting from an empty identity store, the first tick in which
\* collection and fingerprinting succeed establishes the baseline: it stores
\* the fingerprint it computed as the baseline record (in id/hw-id in the file
\* build), compares nothing, reads no token and sends no DELETE.
C1_FirstRunPersistsBaseline ==
    [][(/\ ~hwidFile.exists
        /\ ~saltFile.exists
        /\ initialHdID = <<>>
        /\ last'.outcome \notin {"none", "collectErr", "hashErr"})
       => (/\ last'.outcome = "baselineSet"
           /\ initialHdID' = last'.hwID
           /\ (variant = "file" => hwidFile' = FileOf(last'.hwID))
           /\ last'.tokenReads = 0
           /\ last'.deletes = 0)]_vars

\* C2 as claimed: a tick that has a baseline and computes a different
\* fingerprint sends exactly one DELETE.  Stated for the ticks whose snapshot
\* differs from the one the baseline was taken from.
C2_DriftExactlyOneDelete ==
    (DriftTick /\ JsonOf(last.hwID) # JsonOf(initialHdID)) => last.deletes = 1

\* C2: a tick that has a baseline and computes a different fingerprint reads
\* the auth token exactly once and sends one DELETE if the token was read,
\* none if it was not.
C2_DriftOneAttempt ==
    DriftTick =>
        /\ last.tokenReads = 1
        /\ last.deletes = (IF last.outcome = "tokenErr" THEN 0 ELSE 1)

C2_Witness == DriftTick /\ last.outcome = "deprovErr" /\ last.deletes = 1

\* C3: a token read or a DELETE happens only in a tick that began with a
\* baseline set and computed a fingerprint different from it.
C3_DeprovisionGuard ==
    (last.tokenReads > 0 \/ last.deletes > 0) => (last.hadBaseline /\ last.differs)

C3_Witness == last.deletes = 1 /\ last.hadBaseline /\ last.differs

\* C4: once the baseline record exists, no step of the monitor (tick or
\* restart) changes it.
C4_BaselineImmutable == [][hwidFile.exists => hwidFile' = hwidFile]_vars

\* C5: a successful tick that has a baseline and collects the same content as
\* the baseline was taken from ends as "unchanged", with no token read and no
\* DELETE.
C5_NoFalseDrift ==
    (Succeeded /\ last.hadBaseline /\ JsonOf(last.hwID) = JsonOf(initialHdID))
        => (last.outcome = "unchanged" /\ last.tokenReads = 0 /\ last.deletes = 0)

\* The most recent tick ended in a failed deprovision step.
Failed == last.outcome \in {"tokenErr", "deprovErr"}

\* The facts service answers all five requests and the token file exists.
EnvGood == ~Collected[hw].err /\ tokenFile.exists

\* C6 as claimed: a tick that follows a failed deprovision step and in which
\* collection and fingerprinting succeed makes a new attempt.  Stated for the
\* in-memory build, whose salt cannot change within a run.
C6_RetryEveryTick ==
    (variant = "wasm" /\ last.prevFailed /\ Succeeded) => last.tokenReads = 1

\* C6: after a failed deprovision step the loop goes on with the baseline it
\* had; a following tick in which collection and fingerprinting succeed keeps
\* the baseline and, if its fingerprint still differs, makes a new attempt;
\* and if again and again the facts service answers and the token file exists,
\* then in the end the monitor is deprovisioned or a tick finds the
\* fingerprint equal to the baseline.
C6_RetryWhileDrifted ==
    /\ [](Failed => (pc = "loop" /\ initialHdID # <<>>))
    /\ [][(Failed /\ last' # last /\ Succeeded')
            => (/\ initialHdID' = initialHdID
                /\ last'.hadBaseline
                /\ (last'.differs => last'.tokenReads = 1))]_vars
    /\ ([]<>EnvGood
          => [](Failed => <>(pc = "done" \/ last.outcome = "unchanged")))

C6_Witness == last.prevFailed /\ last.outcome = "deprovisioned"

\* C7: main has returned exactly when the last tick's DELETE was answered 200;
\* only such a tick ends the loop, and once the loop has ended the process does
\* nothing more.
C7_DeprovisionedTerminal ==
    /\ [](pc = "done" <=> (last.deletes = 1 /\ last.status = StatusOK))
    /\ [][(pc = "loop" /\ pc' = "done") => last'.outcome = "deprovisioned"]_vars
    /\ [][(pc = "done" /\ pc' = "done")
            => UNCHANGED <<initialHdID, salt, saltFile, hwidFile, last>>]_vars

C7_Witness == pc = "done" /\ last.outcome = "deprovisioned"

\* C8: a tick in which collection or fingerprinting fails leaves the baseline
\* in memory and the baseline record as they were, reads no token, sends no
\* DELETE, and the loop goes on.
C8_FailedTickNoTransition ==
    [][last'.outcome \in {"collectErr", "hashErr"}
         => (/\ initialHdID' = initialHdID
             /\ hwidFile' = hwidFile
             /\ pc' = "loop"
             /\ last'.tokenReads = 0
             /\ last'.deletes = 0)]_vars

C8_Witness ==
    last.outcome \in {"collectErr", "hashErr"} /\ initialHdID # <<>> /\ hwidFile.exists

\* C9: every tick that does not end the loop sleeps for the period before the
\* next one.
C9_SleepAfterEveryTick ==
    last.outcome \notin {"none", "deprovisioned"} => last.slept

\* C10: once the salt record exists, no step of the monitor writes a newly
\* generated salt over it.
C10_SaltWrittenOnce == [][saltFile.exists => saltFile' = saltFile]_vars

\* C11: a record that exists but cannot be read is not taken for an absent
\* one: the salt record changes only when there was none, and a tick
\* establishes a baseline only when there is no baseline record.
C11_AbsentVersusIOError ==
    [][/\ (saltFile' # saltFile => ~saltFile.exists)
       /\ ((initialHdID = <<>> /\ last'.outcome = "baselineSet")
              => ~hwidFile.exists)]_vars

\* C12: in the file build, a process that starts (no tick made yet) while a
\* salt record and a baseline record exist starts with the content of the
\* baseline record as its baseline, so that its first successful tick compares
\* and never establishes a baseline.
C12_RestartKeepsBaseline ==
    (variant = "file" /\ last = NoTick /\ saltFile.exists /\ hwidFile.exists)
        => (initialHdID = TrimSpace(hwidFile.data) /\ ~BaselineUnset(initialHdID))

\* C19: in the file build, whenever the monitor holds a baseline in memory the
\* baseline record exists and holds the same value.
C19_MemoryBaselineOnDisk ==
    (variant = "file" /\ initialHdID # <<>>) => hwidFile = FileOf(initialHdID)

\* The positions, in the order of Endpoints, of the endpoints whose fetch fails.
FailingEndpoints ==
    {i \in 1..Len(Endpoints) : fetchEndpoint(hw[Endpoints[i]]).err}

\* C13: collectHardwareData asks the endpoints in the order lscpu, lspci,
\* lsusb, lshw, proc/cpuinfo.  If no fetch fails it makes all five requests and
\* returns a snapshot with every category set; otherwise it returns an error
\* and no snapshot, and the first failing request is the last one it makes.
C13_AllOrNothing ==
    /\ Endpoints = <<"lscpu", "lspci", "lsusb", "lshw", "proc/cpuinfo">>
    /\ ret.calls = 1 =>
         IF FailingEndpoints = {}
         THEN /\ ~ret.err
              /\ ret.fetched = Len(Endpoints)
              /\ \A i \in 1..Len(Fields) : ret.data[Fields[i]] # JsonNull
         ELSE /\ ret.err
              /\ ret.data = EmptyHardwareData
              /\ ret.fetched \in FailingEndpoints
              /\ \A i \in FailingEndpoints : ret.fetched <= i

C13_Witness ==
    /\ ret.calls = 1
    /\ ret.err
    /\ ret.fetched = 2
    /\ FailingEndpoints = {2, 4}

\* C14: a call in which some endpoint answers with a status outside 200..299
\* returns an error.
C14_Non2xxAborts ==
    (/\ ret.calls = 1
     /\ \E e \in EndpointSet : hw[e].fail = "none" /\ hw[e].status \notin 200..299)
        => ret.err

\* C18: in a returned snapshot every category is an object: the parsed body
\* itself if that is an object, and the object with the one key "data" holding
\* the parsed body otherwise.
C18_CategoryNormalized ==
    (ret.calls = 1 /\ ~ret.err) =>
        \A i \in 1..Len(Endpoints) :
            LET v == hw[Endpoints[i]].body
                c == ret.data[Fields[i]]
            IN  /\ IsJsonObject(c)
                /\ c = (IF Head(v) = "{" THEN v
                        ELSE <<"{", "data", ":">> \o v \o <<"}">>)

C18_Witness ==
    /\ ret.calls = 1
    /\ ~ret.err
    /\ ret.data["lscpu"] = <<"{", "data", ":", "[", "x86", "]", "}">>
    /\ ret.data["cpuinfo"] = <<"{", "data", ":", "null", "}">>
    /\ ret.data["lspci"] = ObjX86

\* C15: a tick sends at most one DELETE; a tick that calls deprovisionDevice
\* sends exactly one, and the call succeeds (the loop ends) exactly when the
\* answer's status is 200: any other status, and a transport failure, is an
\* error.
C15_OneDeleteSuccessIff200 ==
    /\ last.deletes \in {0, 1}
    /\ last.outcome \in {"deprovErr", "deprovisioned"} <=> last.deletes = 1
    /\ last.deletes = 1 =>
          (last.outcome = "deprovisioned" <=> last.status = StatusOK)

C15_Witness ==
    last.outcome = "deprovErr" /\ last.deletes = 1 /\ last.status = 204

\* C16: a tick that sends the DELETE has read the token file once, and the
\* Authorization value it sends is the trimmed content the file has during
\* that tick, whatever an earlier tick read; a tick reads the token only if it
\* had a baseline and computed a different fingerprint.
C16_TokenReadFresh ==
    [][Tick =>
         /\ last'.deletes > 0 =>
               /\ last'.tokenReads = 1
               /\ tokenFile.exists
               /\ last'.auth = TrimSpace(tokenFile.data)
         /\ last'.tokenReads > 0 => (last'.hadBaseline /\ last'.differs)]_vars

C16_Witness ==
    /\ last.prevFailed
    /\ last.deletes = 1
    /\ last.auth = <<"t2">>
    /\ tokenFile = FileOf(<<"t2", "\n">>)

\* C17: on one snapshot, a call that returns a digest computed with a salt it
\* did not generate (the salt record read back; the global of the in-memory
\* build) returns the digest that the call which generated and stored that
\* salt returned.
C17_SaltRoundTrip ==
    (ret.calls > 0 /\ ~ret.err /\ ~ret.generated) => ret.id = ret.genID

C17_Witness ==
    /\ variant = "file"
    /\ ret.calls = MaxCalls
    /\ ~ret.err
    /\ ~ret.generated
    /\ ret.id = ret.genID
    /\ saltFile.exists

\* C20: in the in-memory build, as long as the global salt is empty no
\* fingerprint has been returned in this run; the first tick that returns one
\* sets the salt, every later one computes with that same salt, and within a
\* run the salt, once set, does not change.  A restart empties the salt and the
\* baseline, so the first successful tick after it establishes a baseline; and
\* two runs that draw different salts give different fingerprints for the same
\* answers of the facts service.
C20_InMemorySalt ==
    /\ []((variant = "wasm" /\ salt = <<>>) => initialHdID = <<>>)
    /\ [][(variant = "wasm" /\ Tick /\ Succeeded') =>
            /\ salt' # <<>>
            /\ salt # <<>> => salt' = salt
            /\ last'.hwID = Sha256Hex(salt' \o Marshal(Collected[hw].data))
            /\ initialHdID = <<>> =>
                  (last'.outcome = "baselineSet" /\ initialHdID' = last'.hwID)]_vars
    /\ [][(variant = "wasm" /\ salt # <<>> /\ ~Restart) => salt' = salt]_vars
    /\ [][(variant = "wasm" /\ Restart) => (salt' = <<>> /\ initialHdID' = <<>>)]_vars
    /\ [](\A h \in HwStates :
            \A a \in MemHashOutcomes[h, <<>>], b \in MemHashOutcomes[h, <<>>] :
                (~a.err /\ ~b.err /\ a.salt # b.salt) => a.id # b.id)

C20_Witness ==
    /\ variant = "wasm"
    /\ last.outcome = "unchanged"
    /\ salt # <<>>
    /\ last.hwID = initialHdID

====
